---------------------------- MODULE Spec2Model ----------------------------
(***************************************************************************)
(* Timetable & attendance consistency engine of the class portal.          *)
(*                                                                         *)
(* The repository holds two generations of the UI in src/App.tsx           *)
(* (the first ends at line 1708, the second starts at line 1753), both     *)
(* calling the same storage service (src/services/supabaseService.ts), and *)
(* an in-memory service with the same interface (src/unnamed/part_003).    *)
(* The model keeps both UI generations: a schedule editor of generation 1  *)
(* (ManageSchedule.handleSubmit) and of generation 2                       *)
(* (ManageSchedule.handleAction), an attendance module of generation 1     *)
(* (handleCommit) and of generation 2 (handleSave).                        *)
(***************************************************************************)
EXTENDS Integers, Sequences, FiniteSets, TLC

VARIABLES
    \* ---- storage (supabase tables / in-memory arrays) ----
    timetable,        \* table `timetable`: set of rows
    nextId,           \* next id the store generates for a timetable row
    notices,          \* table `notices`, oldest first
    attendance,       \* table `attendance` (the Ledger): sequence of rows
    \* ---- ManageSchedule component, one per editor client ----
    selectedClass,    \* selectedClass[c]: the class the component is shown for
    entries,          \* entries[c]: the slots the component last fetched
    editing,          \* editing[c]: id of the slot being edited, or NoId
    errorMsg,         \* errorMsg[c]: what the last submit reported
    \* ---- wall clock of the attendance client ----
    now,              \* [date, min, sec]: local calendar day, minute of day, second
    tz,               \* minutes the local time is ahead of UTC
    \* ---- AttendanceModule, generation 1 ----
    schedule,         \* fetched timetable of the class
    activeEntry,      \* slot found live at the last poll, or NoEntry
    recs,             \* students toggled present
    \* ---- AttendanceModule, generation 2 ----
    selectedDate,
    selectedSubject,
    timetableEntries,
    attendanceStatus,
    isTimingValid,
    \* ---- what the attendance module told the user last ----
    message,
    \* ---- a student's dashboard: records fetched and the figures shown ----
    studentRecs,      \* getAttendanceForStudent result held by the widgets
    perc,             \* StudentConsistencyWidget
    percentage,       \* AttendanceTracker
    lowAlert,         \* useAttendanceNotification: the percentage warned about, or NoAlert
    attChecked,       \* useAttendanceNotification: its effect has run since the mount
    \* ---- the administrator's reports ----
    stats,            \* AdminAnalyticsModule: [date, data], data one entry per class
    attendanceData,   \* AdminReportsModule: the report's parameters and its rows
    \* ---- useTimetableChangeNotification, one per viewer client ----
    alert,            \* alert[v]: id of the notice shown, or NoId
    dismissed,        \* dismissed[v]: notice ids flagged in the client's localStorage
    inflight          \* inflight[v]: getNoticesForClass responses not yet delivered

schedVars == <<timetable, nextId, notices, selectedClass, entries, editing, errorMsg>>
clockVars == <<now, tz>>
attV1Vars == <<schedule, activeEntry, recs>>
attV2Vars == <<selectedDate, selectedSubject, timetableEntries, attendanceStatus, isTimingValid>>
attVars   == <<attendance, now, tz, schedule, activeEntry, recs, selectedDate,
               selectedSubject, timetableEntries, attendanceStatus, isTimingValid, message>>
studentVars == <<studentRecs, perc, percentage, lowAlert, attChecked>>
reportVars  == <<stats, attendanceData>>
notifyVars  == <<alert, dismissed, inflight>>
viewVars    == <<studentRecs, perc, percentage, lowAlert, attChecked, stats, attendanceData,
                 alert, dismissed, inflight>>
vars      == <<timetable, nextId, notices, attendance, selectedClass, entries, editing, errorMsg,
               now, tz, schedule, activeEntry, recs, selectedDate, selectedSubject,
               timetableEntries, attendanceStatus, isTimingValid, message,
               studentRecs, perc, percentage, lowAlert, attChecked, stats, attendanceData,
               alert, dismissed, inflight>>

(***************************************************************************)
(* Bounds of the model                                                     *)
(***************************************************************************)
MaxSlots   == 2      \* timetable rows ever inserted
MaxNotices == 3      \* rows of the notices table
MaxLedger  == 4      \* rows of the attendance table

(***************************************************************************)
(* Strings "HH:mm": a sequence of character codes, digits 0..9 and the     *)
(* colon, which sorts after every digit ('9' = 57 < ':' = 58).             *)
(***************************************************************************)
Colon == 10

TimeStr(h, m) == <<h \div 10, h % 10, Colon, m \div 10, m % 10>>

\* JavaScript's `a < b` on strings: the first differing code decides, a proper
\* prefix is smaller.
StrLess(a, b) ==
    \/ \E i \in 1..Len(a) :
          /\ i <= Len(b)
          /\ a[i] < b[i]
          /\ \A j \in 1..(i - 1) : a[j] = b[j]
    \/ /\ Len(a) < Len(b)
       /\ \A j \in 1..Len(a) : a[j] = b[j]

StrGreater(a, b) == StrLess(b, a)
StrGeq(a, b)     == ~StrLess(a, b)

\* `s.split(':').map(Number)`
SplitHM(s) == <<10 * s[1] + s[2], 10 * s[4] + s[5]>>

\* minute of the day a "HH:mm" string denotes
MinuteOf(s) == 60 * SplitHM(s)[1] + SplitHM(s)[2]

(***************************************************************************)
(* Domains                                                                 *)
(***************************************************************************)
DAYS_OF_WEEK == <<"Monday", "Tuesday", "Wednesday", "Thursday", "Friday", "Saturday">>

Classes   == {"cse-a", "cse-b"}
Subjects  == {"Math", "Physics"}
Faculties == {"Rao"}
FormDays  == {"Monday", "Tuesday"}
Times     == {TimeStr(9, 0), TimeStr(9, 30), TimeStr(10, 0)}
Editors   == {"e1", "e2", "e3"}

NoId    == 0
NoEntry == [id |-> NoId]
NoMsg   == "none"

\* Editor e1 is an administrator on generation 2 of the UI (handleAction),
\* who opens the schedule of any class (App.tsx 2018-2024); editor e2 is the
\* representative of class cse-a on generation 1 (handleSubmit), whose editor
\* is always that of the own class (App.tsx 1206); editor e3 is a second
\* administrator's client on generation 2.
UiVersion(c) == IF c = "e2" THEN 1 ELSE 2

ClassesOf(c) == IF c = "e1" THEN Classes ELSE {"cse-a"}

\* subjects typed into the schedule form
FormSubjects == {"Math"}

(***************************************************************************)
(* Timetable store and notices: src/services/supabaseService.ts            *)
(***************************************************************************)
Ids(tt) == {r.id : r \in tt}

SeqToSet(q) == {q[i] : i \in 1..Len(q)}

\* All orders of the rows S that `.order('start_time', {ascending: true})` may
\* return: ascending start_time, rows with equal start_time in any order.
OrderedByStartTime(S) ==
    {q \in [1..Cardinality(S) -> S] :
        /\ \A i, j \in 1..Cardinality(S) : i # j => q[i] # q[j]
        /\ \A i \in 1..(Cardinality(S) - 1) : ~StrLess(q[i + 1].startTime, q[i].startTime)}

\* getTimetableForClass: the possible results
GetTimetableForClass(tt, classId) ==
    OrderedByStartTime({r \in tt : r.classId = classId})

\* `action.toUpperCase()`
ToUpperCase(action) ==
    CASE action = "added"   -> "ADDED"
      [] action = "updated" -> "UPDATED"
      [] action = "removed" -> "REMOVED"

\* The title `<siren> TIMETABLE_<ACTION>` as its three parts.
NoticeTitle(action) == <<"SIREN", "TIMETABLE_", ToUpperCase(action)>>

\* broadcastTimetableUpdate: one more row in `notices` (its content, a sentence
\* naming the subject, is not kept)
BroadcastTimetableUpdate(ns, classId, action) ==
    Append(ns, [classId |-> classId, title |-> NoticeTitle(action)])

\* the row addTimetableEntry inserts
NewRow(id, classId, day, subject, faculty, startTime, endTime) ==
    [id |-> id, classId |-> classId, day |-> day, subject |-> subject,
     faculty |-> faculty, startTime |-> startTime, endTime |-> endTime]

\* the `update({...}).eq('id', id)` of updateTimetableEntry: class_id is not
\* among the updated columns; no row with that id changes nothing
UpdateRows(tt, id, day, subject, faculty, startTime, endTime) ==
    {IF r.id = id
        THEN [r EXCEPT !.day = day, !.subject = subject, !.faculty = faculty,
                       !.startTime = startTime, !.endTime = endTime]
        ELSE r : r \in tt}

\* the delete of deleteTimetableEntry with the mistake of filtering by `gte`
\* where the code filters by `eq`
DeleteRowsFrom(tt, id) == {r \in tt : r.id < id}

\* the `delete().eq('id', id)` of deleteTimetableEntry
DeleteRows(tt, id) == {r \in tt : r.id # id}

(***************************************************************************)
(* ManageSchedule, generation 2: src/App.tsx 2218-2324                     *)
(***************************************************************************)
\* the callback of `entries.some(...)` in checkOverlap, with the mistake of
\* taking touching slots for overlapping ones
CollidesClosed(existing, newDay, newStart, newEnd, excludeId) ==
    IF existing.id = excludeId THEN FALSE
    ELSE IF existing.day # newDay THEN FALSE
    ELSE ~StrGreater(newStart, existing.endTime) /\ ~StrLess(newEnd, existing.startTime)

\* the callback of `entries.some(...)` in checkOverlap
Collides(existing, newDay, newStart, newEnd, excludeId) ==
    IF existing.id = excludeId THEN FALSE
    ELSE IF existing.day # newDay THEN FALSE
    ELSE StrLess(newStart, existing.endTime) /\ StrGreater(newEnd, existing.startTime)

CheckOverlap(ents, newDay, newStart, newEnd, excludeId) ==
    \E i \in 1..Len(ents) : Collides(ents[i], newDay, newStart, newEnd, excludeId)

\* fetchSchedule / refresh: the component's entries become a fetch of the store
FetchSchedule(c, tt) ==
    entries' \in {[entries EXCEPT ![c] = q] : q \in GetTimetableForClass(tt, selectedClass[c])}

(***************************************************************************)
(* The service calls, as the change they make to the tables.  `ok` is      *)
(* whether the storage request succeeds; a failed request changes nothing  *)
(* and makes the service function throw.  The model stops inserting rows   *)
(* when a table has reached its bound (MaxSlots, MaxNotices).              *)
(***************************************************************************)
\* addTimetableEntry: insert, then broadcast 'added' to entry.classId
AddTimetableEntry(classId, day, subject, faculty, startTime, endTime) ==
    /\ nextId <= MaxSlots
    /\ Len(notices) < MaxNotices
    /\ timetable' = timetable \cup
                      {NewRow(nextId, classId, day, subject, faculty, startTime, endTime)}
    /\ nextId' = nextId + 1
    /\ notices' = BroadcastTimetableUpdate(notices, classId, "added")

\* updateTimetableEntry: update by id, then broadcast 'updated' only
\* `if (entry.classId && entry.subject)`; hasClassId: the caller passed classId
UpdateTimetableEntry(id, hasClassId, classId, day, subject, faculty, startTime, endTime) ==
    /\ hasClassId => Len(notices) < MaxNotices
    /\ timetable' = UpdateRows(timetable, id, day, subject, faculty, startTime, endTime)
    /\ nextId' = nextId
    /\ notices' = IF hasClassId
                     THEN BroadcastTimetableUpdate(notices, classId, "updated")
                     ELSE notices

\* deleteTimetableEntry: read the row, delete by id, broadcast 'removed' to the
\* row's class `if (data)`
DeleteTimetableEntry(id) ==
    /\ (\E r \in timetable : r.id = id) => Len(notices) < MaxNotices
    /\ timetable' = DeleteRows(timetable, id)
    /\ nextId' = nextId
    /\ notices' = IF \E r \in timetable : r.id = id
                     THEN BroadcastTimetableUpdate(notices,
                              (CHOOSE r \in timetable : r.id = id).classId, "removed")
                     ELSE notices

StoreUnchanged == UNCHANGED <<timetable, nextId, notices>>

(***************************************************************************)
(* ManageSchedule: mounting and the edit mode (both generations)           *)
(***************************************************************************)
\* The component is opened for a class: fresh state, and the mount effect
\* fetches the class's schedule.
Mount(c, cls) ==
    /\ selectedClass' = [selectedClass EXCEPT ![c] = cls]
    /\ entries' \in {[entries EXCEPT ![c] = q] : q \in GetTimetableForClass(timetable, cls)}
    /\ editing' = [editing EXCEPT ![c] = NoId]
    /\ errorMsg' = [errorMsg EXCEPT ![c] = NoMsg]
    /\ StoreUnchanged
    /\ UNCHANGED attVars
    /\ UNCHANGED viewVars

\* The administrator picks another class while the editor is open
\* (App.tsx 2014-2024): the component stays mounted, so its edit mode and its
\* error message stay, and the fetch effect runs for the new class.
SelectClass(c, cls) ==
    /\ cls \in ClassesOf(c)
    /\ cls # selectedClass[c]
    /\ selectedClass' = [selectedClass EXCEPT ![c] = cls]
    /\ entries' \in {[entries EXCEPT ![c] = q] : q \in GetTimetableForClass(timetable, cls)}
    /\ StoreUnchanged
    /\ UNCHANGED <<editing, errorMsg>>
    /\ UNCHANGED attVars
    /\ UNCHANGED viewVars

\* startEditing (generation 2) / handleEdit (generation 1)
StartEditing(c, i) ==
    /\ i \in 1..Len(entries[c])
    /\ editing' = [editing EXCEPT ![c] = entries[c][i].id]
    /\ errorMsg' = IF UiVersion(c) = 2 THEN [errorMsg EXCEPT ![c] = NoMsg] ELSE errorMsg
    /\ StoreUnchanged
    /\ UNCHANGED <<selectedClass, entries>>
    /\ UNCHANGED attVars
    /\ UNCHANGED viewVars

\* cancelEditing (generation 2) / resetForm (generation 1)
CancelEditing(c) ==
    /\ editing[c] # NoId
    /\ editing' = [editing EXCEPT ![c] = NoId]
    /\ errorMsg' = IF UiVersion(c) = 2 THEN [errorMsg EXCEPT ![c] = NoMsg] ELSE errorMsg
    /\ StoreUnchanged
    /\ UNCHANGED <<selectedClass, entries>>
    /\ UNCHANGED attVars
    /\ UNCHANGED viewVars

(***************************************************************************)
(* ManageSchedule.handleAction, generation 2: src/App.tsx 2247-2290        *)
(***************************************************************************)
HandleAction(c, day, subject, faculty, startTime, endTime, ok) ==
    /\ UiVersion(c) = 2
    /\ IF StrGeq(startTime, endTime)
          THEN /\ errorMsg' = [errorMsg EXCEPT ![c] = "range"]
               /\ StoreUnchanged
               /\ UNCHANGED <<entries, editing>>
       ELSE IF CheckOverlap(entries[c], day, startTime, endTime, editing[c])
          THEN /\ errorMsg' = [errorMsg EXCEPT ![c] = "conflict"]
               /\ StoreUnchanged
               /\ UNCHANGED <<entries, editing>>
       ELSE IF ~ok
          THEN /\ errorMsg' = [errorMsg EXCEPT ![c] = "sync"]
               /\ StoreUnchanged
               /\ UNCHANGED <<entries, editing>>
       ELSE /\ IF editing[c] # NoId
                  THEN UpdateTimetableEntry(editing[c], FALSE, selectedClass[c],
                                            day, subject, faculty, startTime, endTime)
                  ELSE AddTimetableEntry(selectedClass[c],
                                         day, subject, faculty, startTime, endTime)
            /\ editing' = [editing EXCEPT ![c] = NoId]
            /\ errorMsg' = [errorMsg EXCEPT ![c] = NoMsg]
            /\ FetchSchedule(c, timetable')
    /\ UNCHANGED selectedClass
    /\ UNCHANGED attVars
    /\ UNCHANGED viewVars

\* handleDelete, generation 2: src/App.tsx 2311-2324 (the user confirmed)
HandleDelete(c, i, ok) ==
    /\ UiVersion(c) = 2
    /\ i \in 1..Len(entries[c])
    /\ IF ~ok
          THEN /\ StoreUnchanged
               /\ UNCHANGED <<entries, editing, errorMsg>>
          ELSE /\ DeleteTimetableEntry(entries[c][i].id)
               /\ IF editing[c] = entries[c][i].id
                     THEN /\ editing' = [editing EXCEPT ![c] = NoId]
                          /\ errorMsg' = [errorMsg EXCEPT ![c] = NoMsg]
                     ELSE UNCHANGED <<editing, errorMsg>>
               /\ FetchSchedule(c, timetable')
    /\ UNCHANGED selectedClass
    /\ UNCHANGED attVars
    /\ UNCHANGED viewVars

(***************************************************************************)
(* ManageSchedule.handleSubmit, generation 1: src/App.tsx 1391-1418        *)
(***************************************************************************)
HandleSubmit(c, day, subject, faculty, startTime, endTime, ok) ==
    /\ UiVersion(c) = 1
    /\ IF ~ok
          THEN /\ StoreUnchanged    \* alert(err.message)
               /\ UNCHANGED <<entries, editing, errorMsg>>
          ELSE /\ IF editing[c] # NoId
                     THEN UpdateTimetableEntry(editing[c], TRUE, selectedClass[c],
                                               day, subject, faculty, startTime, endTime)
                     ELSE AddTimetableEntry(selectedClass[c],
                                            day, subject, faculty, startTime, endTime)
               /\ editing' = [editing EXCEPT ![c] = NoId]
               /\ FetchSchedule(c, timetable')
               /\ UNCHANGED errorMsg
    /\ UNCHANGED selectedClass
    /\ UNCHANGED attVars
    /\ UNCHANGED viewVars

\* the delete button of generation 1: src/App.tsx 1448
DeleteClick(c, i, ok) ==
    /\ UiVersion(c) = 1
    /\ i \in 1..Len(entries[c])
    /\ IF ~ok
          THEN /\ StoreUnchanged
               /\ UNCHANGED entries
          ELSE /\ DeleteTimetableEntry(entries[c][i].id)
               /\ FetchSchedule(c, timetable')
    /\ UNCHANGED <<selectedClass, editing, errorMsg>>
    /\ UNCHANGED attVars
    /\ UNCHANGED viewVars

(***************************************************************************)
(* Specifications of the schedule editors.  The attendance client is not   *)
(* running: its variables keep their values.                               *)
(***************************************************************************)
AttendanceIdle ==
    /\ attendance = <<>>
    /\ now = [date |-> 1, min |-> 0, sec |-> 0]
    /\ tz = 0
    /\ schedule = <<>>
    /\ activeEntry = NoEntry
    /\ recs = {}
    /\ selectedDate = 1
    /\ selectedSubject = ""
    /\ timetableEntries = <<>>
    /\ attendanceStatus = <<>>
    /\ isTimingValid = TRUE
    /\ message = NoMsg

\* no dashboard, report or notification hook has run yet
Viewers == {"v1", "v2"}
NoAlert == -1

ViewIdle ==
    /\ studentRecs = <<>>
    /\ perc = 0
    /\ percentage = 0
    /\ lowAlert = NoAlert
    /\ attChecked = FALSE
    /\ stats = [date |-> 0, data |-> <<>>]
    /\ attendanceData = [classId |-> "", startDate |-> 0, endDate |-> 0, rows |-> <<>>]
    /\ alert = [v \in Viewers |-> NoId]
    /\ dismissed = [v \in Viewers |-> {}]
    /\ inflight = [v \in Viewers |-> {}]

Init ==
    /\ timetable = {}
    /\ nextId = 1
    /\ notices = <<>>
    /\ selectedClass \in {f \in [Editors -> Classes] : \A c \in Editors : f[c] \in ClassesOf(c)}
    /\ entries = [c \in Editors |-> <<>>]
    /\ editing = [c \in Editors |-> NoId]
    /\ errorMsg = [c \in Editors |-> NoMsg]
    /\ AttendanceIdle
    /\ ViewIdle

\* The representative's editor (generation 1) alone.
NextCR ==
    \/ \E cls \in ClassesOf("e2") : Mount("e2", cls)
    \/ \E i \in 1..MaxSlots : StartEditing("e2", i)
    \/ CancelEditing("e2")
    \/ \E day \in FormDays, subject \in FormSubjects, faculty \in Faculties,
          startTime \in Times, endTime \in Times, ok \in BOOLEAN :
            HandleSubmit("e2", day, subject, faculty, startTime, endTime, ok)
    \/ \E i \in 1..MaxSlots, ok \in BOOLEAN : DeleteClick("e2", i, ok)

SpecCR == Init /\ [][NextCR]_vars

(***************************************************************************)
(* The administrator's editor (generation 2) alone.                        *)
(***************************************************************************)
NextAdmin ==
    \/ \E cls \in Classes : Mount("e1", cls)
    \/ \E cls \in Classes : SelectClass("e1", cls)
    \/ \E i \in 1..MaxSlots : StartEditing("e1", i)
    \/ CancelEditing("e1")
    \/ \E day \in FormDays, subject \in FormSubjects, faculty \in Faculties,
          startTime \in Times, endTime \in Times, ok \in BOOLEAN :
            HandleAction("e1", day, subject, faculty, startTime, endTime, ok)
    \/ \E i \in 1..MaxSlots, ok \in BOOLEAN : HandleDelete("e1", i, ok)

SpecAdmin == Init /\ [][NextAdmin]_vars

(***************************************************************************)
(* Claims about the Timetable Store                                        *)
(***************************************************************************)
\* the half-open intervals of two rows of one class and day intersect
Overlap(x, y) ==
    /\ x.classId = y.classId
    /\ x.day = y.day
    /\ MinuteOf(x.startTime) < MinuteOf(y.endTime)
    /\ MinuteOf(y.startTime) < MinuteOf(x.endTime)

\* C1: no two distinct stored slots of the same class and day have
\* intervals with s1 < e2 and s2 < e1.
C1_NoOverlap ==
    \A x, y \in timetable : x.id # y.id => ~Overlap(x, y)

\* C8: an addSlot whose interval overlaps a stored slot of the same class and
\* day inserts nothing: every row a step inserts is free of overlap with the
\* rows stored before the step.
C8_OverlappingAddRejected ==
    [][\A r \in timetable' :
          r.id \notin Ids(timetable) => ~(\E x \in timetable : Overlap(x, r))]_vars

\* C9: every stored slot has start < end.
C9_RangesValid ==
    \A r \in timetable : MinuteOf(r.startTime) < MinuteOf(r.endTime)

Students     == <<"s1", "s2">>         \* the roster passed to AttendanceModule
TzOffsets    == {0, 600}               \* local time minus UTC, in minutes
ClockDates   == {1, 2}                 \* a Monday and the Tuesday after it
ClockMinutes == {MinuteOf(t) : t \in Times}
ClockSeconds == {0, 5}
AttClass     == "cse-a"                \* the class of the attendance client

Instants == [date : ClockDates, min : ClockMinutes, sec : ClockSeconds]

\* a total order on instants
Before(a, b) ==
    \/ a.date < b.date
    \/ a.date = b.date /\ a.min < b.min
    \/ a.date = b.date /\ a.min = b.min /\ a.sec < b.sec

\* `now.getDay()`
GetDay(clk) == clk.date % 7

\* `now.toISOString().split('T')[0]`: the calendar date in UTC
UtcDate(clk, offset) ==
    IF clk.min - offset < 0 THEN clk.date - 1
    ELSE IF clk.min - offset >= 1440 THEN clk.date + 1
    ELSE clk.date

\* `now.toLocaleTimeString('en-GB', {hour: '2-digit', minute: '2-digit'})`
LocaleTimeString(clk) == TimeStr(clk.min \div 60, clk.min % 60)

\* `days[now.getDay() - 1]`: undefined on a Sunday
CurrentDay(clk) ==
    IF GetDay(clk) \in 1..Len(DAYS_OF_WEEK)
       THEN DAYS_OF_WEEK[GetDay(clk)]
       ELSE "undefined"

(***************************************************************************)
(* isCurrentlyHappening: src/App.tsx 34-49.  `start` and `end` are built   *)
(* from a later `new Date()` by setHours(h, m, 0), which keeps that Date's *)
(* milliseconds; dS and dE are the sign of (their milliseconds - now's).   *)
(***************************************************************************)
IsCurrentlyHappening(startTime, endTime, day, clk, dS, dE) ==
    LET currentDayIndex == GetDay(clk) - 1
        nowS   == 60 * clk.min + clk.sec
        startS == 60 * (60 * SplitHM(startTime)[1] + SplitHM(startTime)[2])
        endS   == 60 * (60 * SplitHM(endTime)[1] + SplitHM(endTime)[2])
    IN  IF currentDayIndex < 0 \/ currentDayIndex >= Len(DAYS_OF_WEEK) THEN FALSE
        ELSE IF DAYS_OF_WEEK[currentDayIndex + 1] # day THEN FALSE
        ELSE /\ (nowS > startS \/ (nowS = startS /\ 0 >= dS))
             /\ (nowS < endS \/ (nowS = endS /\ 0 <= dE))

MsSigns == {-1, 0, 1}

\* `list.find(pred)`: the first element satisfying pred, or NoEntry
Find(list, Pred(_)) ==
    IF \E i \in 1..Len(list) : Pred(list[i])
       THEN list[CHOOSE i \in 1..Len(list) :
                    Pred(list[i]) /\ \A j \in 1..(i - 1) : ~Pred(list[j])]
       ELSE NoEntry

(***************************************************************************)
(* Attendance Ledger: saveAttendance                                       *)
(***************************************************************************)
SameKey(a, studentId, date, subject) ==
    a.studentId = studentId /\ a.date = date /\ a.subject = subject

\* the body of the forEach of the in-memory saveAttendance, with the key of
\* the older service (student and date, no subject)
SaveOneNoSubject(att, record, date, subject) ==
    IF \E i \in 1..Len(att) : att[i].studentId = record.studentId /\ att[i].date = date
       THEN LET idx == CHOOSE i \in 1..Len(att) :
                          /\ att[i].studentId = record.studentId /\ att[i].date = date
                          /\ \A j \in 1..(i - 1) :
                                ~(att[j].studentId = record.studentId /\ att[j].date = date)
            IN  [att EXCEPT ![idx].present = record.present]
       ELSE Append(att, [studentId |-> record.studentId, date |-> date,
                         subject |-> subject, present |-> record.present])

\* the same body, always pushing (an insert instead of an upsert)
SaveOneAppend(att, record, date, subject) ==
    Append(att, [studentId |-> record.studentId, date |-> date,
                 subject |-> subject, present |-> record.present])

\* the body of the forEach of the in-memory saveAttendance
\* (src/unnamed/part_003 133-141): findIndex on (studentId, date, subject),
\* overwrite `present` or push
SaveOne(att, record, date, subject) ==
    IF \E i \in 1..Len(att) : SameKey(att[i], record.studentId, date, subject)
       THEN LET idx == CHOOSE i \in 1..Len(att) :
                          /\ SameKey(att[i], record.studentId, date, subject)
                          /\ \A j \in 1..(i - 1) :
                                ~SameKey(att[j], record.studentId, date, subject)
            IN  [att EXCEPT ![idx].present = record.present]
       ELSE Append(att, [studentId |-> record.studentId, date |-> date,
                         subject |-> subject, present |-> record.present])

RECURSIVE ForEachSave(_, _, _, _)
ForEachSave(att, records, date, subject) ==
    IF records = <<>> THEN att
    ELSE ForEachSave(SaveOne(att, Head(records), date, subject),
                     Tail(records), date, subject)

\* in-memory service: src/unnamed/part_003 132-142
SaveAttendanceMem(att, records, date, subject) ==
    ForEachSave(att, records, date, subject)

\* the mistake of a save that stops after the first record of the batch
SaveAttendanceFirstOnly(att, records, date, subject) ==
    IF records = <<>> THEN att ELSE SaveOne(att, Head(records), date, subject)

\* the mistake of an `insert(payload)` in place of the upsert
SaveAttendanceInsert(att, records, date, subject) ==
    att \o [i \in 1..Len(records) |->
               [studentId |-> records[i].studentId, date |-> date,
                subject |-> subject, present |-> records[i].present]]

\* supabase service: src/services/supabaseService.ts 231-239.  One
\* `upsert(payload, {onConflict: 'student_id, date, subject'})` statement: a
\* payload naming one key twice is refused as a whole by the database.
SaveAttendance(att, records, date, subject) ==
    IF \E i, j \in 1..Len(records) : i # j /\ records[i].studentId = records[j].studentId
       THEN att
       ELSE ForEachSave(att, records, date, subject)

Services == {"supabase", "memory"}

\* what a saveAttendance call leaves in the table; ok: the request succeeded
Saved(svc, ok, att, records, date, subject) ==
    IF ~ok THEN att
    ELSE IF svc = "supabase" THEN SaveAttendance(att, records, date, subject)
    ELSE SaveAttendanceMem(att, records, date, subject)

(***************************************************************************)
(* The clock advances to the next instant of the model.                    *)
(***************************************************************************)
Tick ==
    /\ \E t \in Instants :
          /\ Before(now, t)
          /\ \A u \in Instants : ~(Before(now, u) /\ Before(u, t))
          /\ now' = t
    /\ UNCHANGED <<tz, attendance, schedule, activeEntry, recs, selectedDate,
                   selectedSubject, timetableEntries, attendanceStatus, isTimingValid,
                   message>>
    /\ UNCHANGED schedVars
    /\ UNCHANGED viewVars

(***************************************************************************)
(* AttendanceModule, generation 1: src/App.tsx 1572-1609                   *)
(***************************************************************************)
\* what refreshActiveSession finds
ActiveSession(list, clk, dS, dE) ==
    LET Live(s) == IsCurrentlyHappening(s.startTime, s.endTime, s.day, clk, dS, dE)
    IN  Find(list, Live)

\* refreshActiveSession, run after loading and by the 10 s interval
RefreshActiveSession(dS, dE) ==
    /\ activeEntry' = ActiveSession(schedule, now, dS, dE)
    /\ UNCHANGED <<now, tz, attendance, schedule, recs, message>>
    /\ UNCHANGED attV2Vars
    /\ UNCHANGED schedVars
    /\ UNCHANGED viewVars

\* a click on a student of the list, shown while a session is active
ToggleRec(s) ==
    /\ activeEntry # NoEntry
    /\ recs' = IF s \in recs THEN recs \ {s} ELSE recs \cup {s}
    /\ UNCHANGED <<now, tz, attendance, schedule, activeEntry, message>>
    /\ UNCHANGED attV2Vars
    /\ UNCHANGED schedVars
    /\ UNCHANGED viewVars

\* `students.map(s => ({studentId: s.uid, present: !!recs[s.uid]}))`
CommitRecords(r) ==
    [i \in 1..Len(Students) |-> [studentId |-> Students[i], present |-> (Students[i] \in r)]]

\* handleCommit, the user confirming the dialog.  saveAttendance does not
\* look at the result of the upsert, so the success alert follows in any case.
HandleCommit(svc, ok) ==
    /\ activeEntry # NoEntry
    /\ attendance' = Saved(svc, ok, attendance, CommitRecords(recs),
                           UtcDate(now, tz), activeEntry.subject)
    /\ Len(attendance') <= MaxLedger
    /\ message' = "success"
    /\ recs' = {}
    /\ UNCHANGED <<now, tz, schedule, activeEntry>>
    /\ UNCHANGED attV2Vars
    /\ UNCHANGED schedVars
    /\ UNCHANGED viewVars

(***************************************************************************)
(* AttendanceModule, generation 2: src/App.tsx 2591-2681                   *)
(***************************************************************************)
\* the timing-validation effect (2606-2633): the value it gives isTimingValid
TimingValid(subject, date, list, clk, offset) ==
    IF subject = "" THEN TRUE
    ELSE IF date # UtcDate(clk, offset) THEN FALSE
    ELSE LET OfDay(e) == e.day = CurrentDay(clk) /\ e.subject = subject
             dayEntry == Find(list, OfDay)
         IN  IF dayEntry = NoEntry THEN FALSE
             ELSE IF \/ StrLess(LocaleTimeString(clk), dayEntry.startTime)
                     \/ StrGreater(LocaleTimeString(clk), dayEntry.endTime)
                  THEN FALSE
             ELSE TRUE

\* the status-initialisation effect (2635-2642)
InitialStatus == [i \in 1..Len(Students) |-> FALSE]

\* `Array.from(new Set(timetableEntries.map(item => item.subject)))`
AvailableSubjects(list) == {list[i].subject : i \in 1..Len(list)}

\* the subject select changes: both effects run
SelectSubject(subject) ==
    /\ subject \in AvailableSubjects(timetableEntries) \cup {""}
    /\ subject # selectedSubject
    /\ selectedSubject' = subject
    /\ isTimingValid' = TimingValid(subject, selectedDate, timetableEntries, now, tz)
    /\ attendanceStatus' = InitialStatus
    /\ message' = NoMsg
    /\ UNCHANGED <<now, tz, attendance, selectedDate, timetableEntries>>
    /\ UNCHANGED attV1Vars
    /\ UNCHANGED schedVars
    /\ UNCHANGED viewVars

\* the date input changes: both effects run
SelectDate(date) ==
    /\ date # selectedDate
    /\ selectedDate' = date
    /\ isTimingValid' = TimingValid(selectedSubject, date, timetableEntries, now, tz)
    /\ attendanceStatus' = InitialStatus
    /\ message' = NoMsg
    /\ UNCHANGED <<now, tz, attendance, selectedSubject, timetableEntries>>
    /\ UNCHANGED attV1Vars
    /\ UNCHANGED schedVars
    /\ UNCHANGED viewVars

\* handleStatusChange
HandleStatusChange(i, isPresent) ==
    /\ selectedSubject # ""
    /\ isTimingValid
    /\ attendanceStatus' = [attendanceStatus EXCEPT ![i] = isPresent]
    /\ UNCHANGED <<now, tz, attendance, selectedDate, selectedSubject, timetableEntries,
                   isTimingValid, message>>
    /\ UNCHANGED attV1Vars
    /\ UNCHANGED schedVars
    /\ UNCHANGED viewVars

\* the same, sending the students marked present only
SaveRecordsPresentOnly(status) ==
    LET RECURSIVE Marked(_)
        Marked(n) ==
            IF n = 0 THEN <<>>
            ELSE IF status[n]
               THEN Append(Marked(n - 1), [studentId |-> Students[n], present |-> TRUE])
               ELSE Marked(n - 1)
    IN  Marked(Len(Students))

\* `Object.entries(attendanceStatus).map(...)`
SaveRecords(status) ==
    [i \in 1..Len(Students) |-> [studentId |-> Students[i], present |-> status[i]]]

\* handleSave: the button is shown once a subject is selected
HandleSave(svc, ok) ==
    /\ selectedSubject # ""
    /\ IF ~isTimingValid
          THEN /\ message' = "timing"
               /\ UNCHANGED attendance
          ELSE /\ attendance' = Saved(svc, ok, attendance, SaveRecords(attendanceStatus),
                                      selectedDate, selectedSubject)
               /\ Len(attendance') <= MaxLedger
               /\ message' = "success"
    /\ UNCHANGED <<now, tz, selectedDate, selectedSubject, timetableEntries,
                   attendanceStatus, isTimingValid>>
    /\ UNCHANGED attV1Vars
    /\ UNCHANGED schedVars
    /\ UNCHANGED viewVars

\* markAll
MarkAll(present) ==
    /\ selectedSubject # ""
    /\ isTimingValid
    /\ attendanceStatus' = [i \in 1..Len(Students) |-> present]
    /\ UNCHANGED <<now, tz, attendance, selectedDate, selectedSubject, timetableEntries,
                   isTimingValid, message>>
    /\ UNCHANGED attV1Vars
    /\ UNCHANGED schedVars
    /\ UNCHANGED viewVars

(***************************************************************************)
(* Specifications of the attendance client.  The class's timetable was     *)
(* made before by an editor of generation 2 (slots of valid range, free of *)
(* overlap) and stays as it is; the module has fetched it.                 *)
(***************************************************************************)
AttDays   == {"Monday"}
DateInput == 0..2                      \* dates the date input is set to

SlotRows(id) ==
    {r \in [id : {id}, classId : {AttClass}, day : AttDays, subject : Subjects,
            faculty : Faculties, startTime : Times, endTime : Times] :
        MinuteOf(r.startTime) < MinuteOf(r.endTime)}

AttTimetables ==
    {{}} \cup {{a} : a \in SlotRows(1)}
         \cup {p \in {{a, b} : a \in SlotRows(1), b \in SlotRows(2)} :
                   \A x, y \in p : x.id # y.id => ~Overlap(x, y)}

FirstInstant == CHOOSE t \in Instants : \A u \in Instants : ~Before(u, t)

InitAttendance ==
    /\ timetable \in AttTimetables
    /\ nextId = Cardinality(timetable) + 1
    /\ notices = [i \in 1..Cardinality(timetable) |->
                    [classId |-> AttClass, title |-> NoticeTitle("added")]]
    /\ selectedClass = [c \in Editors |-> AttClass]
    /\ entries = [c \in Editors |-> <<>>]
    /\ editing = [c \in Editors |-> NoId]
    /\ errorMsg = [c \in Editors |-> NoMsg]
    /\ attendance = <<>>
    /\ now = FirstInstant
    /\ tz \in TzOffsets
    /\ schedule \in GetTimetableForClass(timetable, AttClass)
    /\ activeEntry = NoEntry
    /\ recs = {}
    /\ selectedDate = UtcDate(now, tz)
    /\ selectedSubject = ""
    /\ timetableEntries = schedule
    /\ attendanceStatus = InitialStatus
    /\ isTimingValid = TRUE
    /\ message = NoMsg
    /\ ViewIdle

NextAttV1 ==
    \/ Tick
    \/ \E dS \in MsSigns, dE \in MsSigns : RefreshActiveSession(dS, dE)
    \/ \E i \in 1..Len(Students) : ToggleRec(Students[i])
    \/ \E svc \in Services, ok \in BOOLEAN : HandleCommit(svc, ok)

SpecAttV1 == InitAttendance /\ [][NextAttV1]_vars

NextAttV2 ==
    \/ Tick
    \/ \E subject \in Subjects \cup {""} : SelectSubject(subject)
    \/ \E date \in DateInput : SelectDate(date)
    \/ \E i \in 1..Len(Students), isPresent \in BOOLEAN : HandleStatusChange(i, isPresent)
    \/ \E present \in BOOLEAN : MarkAll(present)
    \/ \E svc \in Services, ok \in BOOLEAN : HandleSave(svc, ok)

SpecAttV2 == InitAttendance /\ [][NextAttV2]_vars

(***************************************************************************)
(* Claims about the Attendance Gate and the Attendance Ledger              *)
(***************************************************************************)
\* the slots of the class that contain the instant: of the local day of the
\* week, start <= time of day <= end at minute precision
LiveSlots(tt, classId, clk) ==
    {r \in tt : /\ r.classId = classId
                /\ r.day = CurrentDay(clk)
                /\ MinuteOf(r.startTime) <= clk.min
                /\ clk.min <= MinuteOf(r.endTime)}

\* row i of the table after the step is new or differs from the row before
Written(i) == i > Len(attendance) \/ attendance'[i] # attendance[i]

\* C2: every record a step writes to the Ledger has the current calendar
\* date (here: the local date or the UTC date of the instant of the write)
\* and the subject of a slot of the class that is live at that instant.
C2_GateHoldsAtWrite ==
    [][\A i \in 1..Len(attendance') :
          Written(i) =>
             /\ attendance'[i].date \in {now.date, UtcDate(now, tz)}
             /\ \E r \in LiveSlots(timetable, AttClass, now) :
                   r.subject = attendance'[i].subject]_vars

\* C3: selecting a subject for a date that is today authorizes the marking
\* whenever a slot of the class is live and every live slot has that
\* subject, however many slots the subject has on that day.
C3_AuthorizedWhenLiveSubject ==
    [][(/\ selectedSubject' # selectedSubject
        /\ selectedSubject' # ""
        /\ selectedDate' = UtcDate(now', tz')
        /\ LiveSlots(timetable', AttClass, now') # {}
        /\ \A r \in LiveSlots(timetable', AttClass, now') : r.subject = selectedSubject')
       => isTimingValid']_vars

\* the keys of the rows of the Ledger are pairwise different
UniqueKeys(att) ==
    \A i, j \in 1..Len(att) :
        i # j => ~SameKey(att[i], att[j].studentId, att[j].date, att[j].subject)

HasKey(att, studentId, date, subject) ==
    \E i \in 1..Len(att) : SameKey(att[i], studentId, date, subject)

\* the students of the roster whose key (student, date, subject) is not in att
NewKeys(att, date, subject) ==
    {k \in 1..Len(Students) : ~HasKey(att, Students[k], date, subject)}

\* C4: the Ledger holds at most one record per (studentId, date, subject),
\* and a commit that changes the Ledger adds exactly one record per key of the
\* batch that was not there and none for a key that was.
C4_LedgerKeysUnique ==
    /\ [](UniqueKeys(attendance))
    /\ [][attendance' # attendance =>
            Len(attendance') = Len(attendance)
                + Cardinality(NewKeys(attendance, selectedDate, selectedSubject))]_vars

\* C4 witness: the Ledger holds the records of two commits, for two subjects
\* of one date, each student once per subject.
C4_Witness ==
    /\ Len(attendance) = 2 * Len(Students)
    /\ \A k \in 1..Len(Students), p \in Subjects :
          HasKey(attendance, Students[k], attendance[1].date, p)

\* C5: committing the batch of the form twice in a row leaves the Ledger as
\* committing it once does, whatever Ledger, batch, date and subject the
\* module has reached and whichever service stores it.
C5_CommitIdempotent ==
    selectedSubject # "" =>
        \A svc \in Services :
            LET B    == SaveRecords(attendanceStatus)
                once == Saved(svc, TRUE, attendance, B, selectedDate, selectedSubject)
            IN  Saved(svc, TRUE, once, B, selectedDate, selectedSubject) = once

\* C5 witness: the batch of the form has been committed and is committed
\* again: its keys are in the Ledger, with a student present and one absent.
C5_Witness ==
    /\ selectedSubject # ""
    /\ message = "success"
    /\ NewKeys(attendance, selectedDate, selectedSubject) = {}
    /\ \E i, k \in 1..Len(Students) : attendanceStatus[i] /\ ~attendanceStatus[k]

C7_CommitAtomic ==
    [][\/ attendance' = attendance
       \/ \A k \in 1..Len(Students) :
             \E i \in 1..Len(attendance') :
                 /\ SameKey(attendance'[i], Students[k], UtcDate(now, tz), activeEntry.subject)
                 /\ attendance'[i].present = (Students[k] \in recs)]_vars

\* C7 witness: a commit has been made and the Ledger holds the whole roster,
\* with a student present and a student absent.
C7_Witness ==
    /\ message = "success"
    /\ Len(attendance) >= Len(Students)
    /\ \E i, j \in 1..Len(attendance) :
          /\ attendance[i].date = attendance[j].date
          /\ attendance[i].subject = attendance[j].subject
          /\ attendance[i].present /\ ~attendance[j].present

(***************************************************************************)
(* Claims about updates and deletions of slots                             *)
(***************************************************************************)
\* C11: an update whose new interval overlaps another slot of the same class
\* and day is rejected and changes nothing: no step leaves a row that was in
\* the store with new values that overlap another stored row.
C11_UpdateOverlapRejected ==
    [][\A r \in timetable' :
          (r.id \in Ids(timetable) /\ r \notin timetable)
             => ~(\E x \in timetable' : x.id # r.id /\ Overlap(x, r))]_vars

\* C12: an update for a slot id that is not in the Timetable Store leaves
\* the Notice Store unchanged: while an editor's edit mode names an id that
\* the store does not hold, no step adds an UPDATED notice.
C12_MissingIdLeavesStores ==
    [][\A c \in Editors :
          (editing[c] # NoId /\ editing[c] \notin Ids(timetable))
             => ~(/\ Len(notices') = Len(notices) + 1
                  /\ notices'[Len(notices')].title = NoticeTitle("updated"))]_vars

(***************************************************************************)
(* Claims about the live slot                                              *)
(***************************************************************************)
\* C13: the slot the attendance client finds live is a slot of today that
\* contains the time of day at minute precision, both bounds inclusive, and
\* one is found exactly when such a slot exists: whenever the active session
\* changes, it is NoEntry iff no slot is live, and otherwise a live slot.
C13_LiveSlotInclusiveMinutes ==
    [][activeEntry' # activeEntry =>
          /\ (activeEntry' = NoEntry) <=> (LiveSlots(timetable, AttClass, now) = {})
          /\ activeEntry' # NoEntry => activeEntry' \in LiveSlots(timetable, AttClass, now)]_vars

\* TimetableWidget (src/App.tsx 443-461): the slots of the list rendered with
\* the "Live Session" badge, each by its own call of isCurrentlyHappening
LiveBadges(list, clk, dS, dE) ==
    {list[i] : i \in {k \in 1..Len(list) :
                        IsCurrentlyHappening(list[k].startTime, list[k].endTime,
                                             list[k].day, clk, dS, dE)}}

\* C14: at every instant at most one slot of the class's overlap-free
\* timetable is evaluated as currently happening (the Date objects of one
\* evaluation taken within the same millisecond).
C14_AtMostOneLive ==
    Cardinality(LiveBadges(schedule, now, 0, 0)) <= 1

(***************************************************************************)
(* JavaScript numbers.  `(present / total) * 100` is computed in IEEE-754  *)
(* doubles: the quotient is rounded to 53 significant binary digits        *)
(* (nearest, ties to even), and so is the product.  A positive double is   *)
(* [m, e]: m its 53 binary digits, most significant first, and             *)
(* value = (the integer m spells) * 2^e; Zero has no digits.               *)
(***************************************************************************)
Precision == 53

Zero == [m |-> <<>>, e |-> 0]

Front(b) == SubSeq(b, 1, Len(b) - 1)

Zeros(k) == [i \in 1..k |-> 0]

RECURSIVE BitsToInt(_)
BitsToInt(b) == IF b = <<>> THEN 0 ELSE 2 * BitsToInt(Front(b)) + b[Len(b)]

\* b + 1 on digits of the same length (all ones wrap to all zeros): a digit
\* flips iff every digit to its right is 1
Inc(b) ==
    [i \in 1..Len(b) |->
        IF \A k \in (i + 1)..Len(b) : b[k] = 1 THEN 1 - b[i] ELSE b[i]]

\* the carry into digit i of x + y: some digit to its right generates one and
\* every digit between propagates it
CarryInto(x, y, i) ==
    IF \E j \in (i + 1)..Len(x) :
           /\ x[j] = 1 /\ y[j] = 1
           /\ \A k \in (i + 1)..(j - 1) : x[k] = 1 \/ y[k] = 1
       THEN 1 ELSE 0

\* x + y on digit sequences of equal length; one digit longer
AddBits(x, y) ==
    [i \in 1..(Len(x) + 1) |->
        IF i = 1 THEN CarryInto(x, y, 0)
        ELSE (x[i - 1] + y[i - 1] + CarryInto(x, y, i - 1)) % 2]

RECURSIVE StripZeros(_)
StripZeros(b) == IF b # <<>> /\ b[1] = 0 THEN StripZeros(Tail(b)) ELSE b

\* round the exact value (digits b, leading digit 1, times 2^e, plus a
\* nonzero tail below the last digit iff sticky) to Precision digits
RoundToDouble(b, e, sticky) ==
    IF Len(b) <= Precision
       THEN [m |-> b \o Zeros(Precision - Len(b)), e |-> e - (Precision - Len(b))]
    ELSE LET m     == SubSeq(b, 1, Precision)
             rest  == SubSeq(b, Precision + 1, Len(b))
             tail  == sticky \/ \E i \in 2..Len(rest) : rest[i] = 1
             up    == rest[1] = 1 /\ (tail \/ m[Precision] = 1)
             e2    == e + Len(rest)
         IN  IF ~up THEN [m |-> m, e |-> e2]
             ELSE IF \A i \in 1..Precision : m[i] = 1
                THEN [m |-> <<1>> \o Zeros(Precision - 1), e |-> e2 + 1]
             ELSE [m |-> Inc(m), e |-> e2]

\* 2^k modulo n, by squaring
RECURSIVE PowMod(_, _)
PowMod(k, n) ==
    IF k = 0 THEN 1 % n
    ELSE LET h == PowMod(k \div 2, n)
         IN  (h * h * (IF k % 2 = 1 THEN 2 ELSE 1)) % n

\* the first k binary digits after the point of rem / n (0 <= rem < n), and
\* the remainder left: digit i is floor(2 * (rem * 2^(i-1) mod n) / n)
Expand(rem, n, k) ==
    [bits |-> [i \in 1..k |-> IF 2 * ((rem * PowMod(i - 1, n)) % n) >= n THEN 1 ELSE 0],
     rem  |-> (rem * PowMod(k, n)) % n]

\* how many binary digits after the point of rem / n are 0 before the first 1
RECURSIVE LeadingZeros(_, _)
LeadingZeros(rem, n) == IF 2 * rem >= n THEN 0 ELSE 1 + LeadingZeros(2 * rem, n)

RECURSIVE Pow2(_)
Pow2(k) == IF k = 0 THEN 1 ELSE 2 * Pow2(k - 1)

\* the double p / n, for integers 0 <= p <= n, n > 0
DoubleDiv(p, n) ==
    IF p = 0 THEN Zero
    ELSE IF p = n THEN [m |-> <<1>> \o Zeros(Precision - 1), e |-> -(Precision - 1)]
    ELSE LET z == LeadingZeros(p, n)
             x == Expand(p * Pow2(z), n, Precision + 1)
         IN  RoundToDouble(x.bits, -(z + Precision + 1), x.rem # 0)

\* the double x * 100: 100 m = 64 m + 32 m + 4 m, then rounded
DoubleTimes100(x) ==
    IF x = Zero THEN Zero
    ELSE LET m64  == Zeros(1) \o x.m \o Zeros(6)
             m32  == Zeros(2) \o x.m \o Zeros(5)
             m4   == Zeros(5) \o x.m \o Zeros(2)
             m96  == AddBits(m64, m32)
             m100 == AddBits(Tail(m96), m4)
         IN  RoundToDouble(StripZeros(m100), x.e, FALSE)

\* Math.round of a double below 2^Precision: floor(x + 1/2), exactly
MathRound(x) ==
    IF x = Zero THEN 0
    ELSE LET intDigits == Precision + x.e
         IN  IF intDigits < 0 THEN 0
             ELSE BitsToInt(SubSeq(x.m, 1, intDigits)) + x.m[intDigits + 1]

(***************************************************************************)
(* A student's dashboard: the three places that derive the percentage      *)
(***************************************************************************)
\* `.order('date', { ascending: false })`
RECURSIVE OrderedByDateDesc(_)
OrderedByDateDesc(S) ==
    IF S = {} THEN <<>>
    ELSE LET latest == CHOOSE x \in S : \A y \in S : y.date <= x.date
         IN  <<latest>> \o OrderedByDateDesc(S \ {latest})

\* getAttendanceForStudent (src/services/supabaseService.ts 280-291): the
\* student's rows, latest date first
GetAttendanceForStudent(att, studentId) ==
    OrderedByDateDesc({att[i] : i \in {k \in 1..Len(att) : att[k].studentId = studentId}})

\* `recs.filter(r => r.present).length`
PresentCount(list) == Cardinality({i \in 1..Len(list) : list[i].present})

\* `Math.round((recs.filter(r => r.present).length / recs.length) * 100)`
RoundedPercent(list) == MathRound(DoubleTimes100(DoubleDiv(PresentCount(list), Len(list))))

\* round-half-up(100 * present / total) in exact arithmetic
RoundedPercentExact(list) == (200 * PresentCount(list) + Len(list)) \div (2 * Len(list))

\* StudentConsistencyWidget (src/App.tsx 1457-1460)
ConsistencyLoad(studentId) ==
    /\ studentRecs' = GetAttendanceForStudent(attendance, studentId)
    /\ perc' = IF Len(studentRecs') > 0 THEN RoundedPercent(studentRecs') ELSE 0
    /\ UNCHANGED <<percentage, lowAlert, attChecked>>
    /\ UNCHANGED <<reportVars, notifyVars, attVars, schedVars>>

\* AttendanceTracker (src/App.tsx 3060-3072)
TrackerLoad(studentId) ==
    /\ studentRecs' = GetAttendanceForStudent(attendance, studentId)
    /\ percentage' = IF Len(studentRecs') > 0 THEN RoundedPercent(studentRecs') ELSE 0
    /\ UNCHANGED <<perc, lowAlert, attChecked>>
    /\ UNCHANGED <<reportVars, notifyVars, attVars, schedVars>>

\* useAttendanceNotification (src/App.tsx 578-599): warns below 75.  The
\* effect depends on [studentId] only and sets no interval: check() runs once
\* for a mounted dashboard.
LowAttendanceCheck(studentId) ==
    /\ ~attChecked
    /\ attChecked' = TRUE
    /\ studentRecs' = GetAttendanceForStudent(attendance, studentId)
    /\ lowAlert' = IF Len(studentRecs') > 0 /\ RoundedPercent(studentRecs') < 75
                      THEN RoundedPercent(studentRecs')
                      ELSE lowAlert
    /\ UNCHANGED <<perc, percentage>>
    /\ UNCHANGED <<reportVars, notifyVars, attVars, schedVars>>

\* Ledgers of the dashboard specification: the student "s1" has n records,
\* one per date, the first p of them present; "s2" has one record or none.
MaxRecords == 40

History(n, p, other) ==
    [i \in 1..n |-> [studentId |-> "s1", date |-> i, subject |-> "Math", present |-> (i <= p)]]
    \o (IF other THEN <<[studentId |-> "s2", date |-> 1, subject |-> "Math", present |-> TRUE]>>
        ELSE <<>>)

InitStudent ==
    /\ timetable = {}
    /\ nextId = 1
    /\ notices = <<>>
    /\ selectedClass = [c \in Editors |-> AttClass]
    /\ entries = [c \in Editors |-> <<>>]
    /\ editing = [c \in Editors |-> NoId]
    /\ errorMsg = [c \in Editors |-> NoMsg]
    /\ \E n \in 0..MaxRecords, p \in 0..MaxRecords, other \in BOOLEAN :
          p <= n /\ attendance = History(n, p, other)
    /\ now = FirstInstant
    /\ tz = 0
    /\ schedule = <<>>
    /\ activeEntry = NoEntry
    /\ recs = {}
    /\ selectedDate = 1
    /\ selectedSubject = ""
    /\ timetableEntries = <<>>
    /\ attendanceStatus = <<>>
    /\ isTimingValid = TRUE
    /\ message = NoMsg
    /\ ViewIdle

NextStudent ==
    \/ ConsistencyLoad("s1")
    \/ TrackerLoad("s1")
    \/ LowAttendanceCheck("s1")

SpecStudent == InitStudent /\ [][NextStudent]_vars

\* C15: every figure a dashboard derives for a student is an integer in
\* 0..100 equal to round-half-up(100 * present / total) over the student's
\* Ledger rows; the consistency widget, the attendance tracker and the
\* low-attendance check give the same value.
C15_PercentageRoundHalfUp ==
    [][LET own   == GetAttendanceForStudent(attendance, "s1")
           exact == IF Len(own) = 0 THEN 0 ELSE RoundedPercentExact(own)
       IN  /\ exact \in 0..100
           /\ perc' # perc => perc' = exact
           /\ percentage' # percentage => percentage' = exact
           /\ lowAlert' # lowAlert => lowAlert' = exact]_vars

(***************************************************************************)
(* The administrator's reports                                             *)
(***************************************************************************)
\* table `classes` (in the order the select returns it) and table `users`
ClassesTable == <<"cse-a", "cse-b">>

UsersTable ==
    { [uid |-> "s1",  classId |-> "cse-a", role |-> "student"],
      [uid |-> "s2",  classId |-> "cse-a", role |-> "cr"],
      [uid |-> "s3",  classId |-> "cse-b", role |-> "student"],
      [uid |-> "adm", classId |-> "",      role |-> "admin"] }

\* getStudentsByClass (src/services/supabaseService.ts 219-229): the roster
\* an AttendanceModule is given
RosterOf(classId) ==
    IF classId = AttClass THEN Students ELSE <<"s3">>

\* the same, counting the present rows instead of the distinct students
GetDailyActivityStatsPerRow(att, date) ==
    LET attendanceRows == {att[i] : i \in {k \in 1..Len(att) : att[k].date = date}}
        users          == {u \in UsersTable : u.role \in {"student", "cr"}}
    IN  [c \in 1..Len(ClassesTable) |->
            LET classStudents   == {u \in users : u.classId = ClassesTable[c]}
                studentIds      == {u.uid : u \in classStudents}
                classAttendance == {a \in attendanceRows : a.studentId \in studentIds}
                presentRows     == Cardinality({x \in classAttendance : x.present})
                total           == Cardinality(classStudents)
            IN  [id         |-> ClassesTable[c],
                 total      |-> total,
                 present    |-> presentRows,
                 absent     |-> total - presentRows,
                 percentage |-> Zero]]

\* getDailyActivityStats (src/services/supabaseService.ts 337-361)
GetDailyActivityStats(att, date) ==
    LET attendanceRows == {att[i] : i \in {k \in 1..Len(att) : att[k].date = date}}
        users          == {u \in UsersTable : u.role \in {"student", "cr"}}
    IN  [c \in 1..Len(ClassesTable) |->
            LET classStudents      == {u \in users : u.classId = ClassesTable[c]}
                studentIds         == {u.uid : u \in classStudents}
                classAttendance    == {a \in attendanceRows : a.studentId \in studentIds}
                uniquePresentCount == Cardinality({a.studentId : a \in {x \in classAttendance : x.present}})
                total              == Cardinality(classStudents)
            IN  [id         |-> ClassesTable[c],
                 total      |-> total,
                 present    |-> uniquePresentCount,
                 absent     |-> total - uniquePresentCount,
                 percentage |-> IF total > 0
                                   THEN DoubleTimes100(DoubleDiv(uniquePresentCount, total))
                                   ELSE Zero]]

\* a teacher's client stores a batch for the roster of a class
SaveAttendanceCall(svc, classId, present, date, subject) ==
    /\ attendance' = Saved(svc, TRUE, attendance,
                           [i \in 1..Len(RosterOf(classId)) |->
                               [studentId |-> RosterOf(classId)[i], present |-> present[i]]],
                           date, subject)
    /\ Len(attendance') <= MaxLedger
    /\ attendance' # attendance
    /\ UNCHANGED <<now, tz, schedule, activeEntry, recs, selectedDate, selectedSubject,
                   timetableEntries, attendanceStatus, isTimingValid, message>>
    /\ UNCHANGED <<studentVars, reportVars, notifyVars, schedVars>>

\* AdminAnalytics: the daily activity of a date is fetched (src/App.tsx 740)
FetchDailyStats(date) ==
    /\ stats' = [date |-> date, data |-> GetDailyActivityStats(attendance, date)]
    /\ UNCHANGED attendanceData
    /\ UNCHANGED <<studentVars, notifyVars, attVars, schedVars>>

(***************************************************************************)
(* JavaScript values of a report column, tagged with their type: a string  *)
(* is the sequence of its characters                                       *)
(***************************************************************************)
JsString(chars) == [type |-> "string", chars |-> chars]

DigitChars == <<"0", "1", "2", "3", "4", "5", "6", "7", "8", "9">>

\* the decimal digits of a natural number, as characters
RECURSIVE DecimalChars(_)
DecimalChars(n) ==
    IF n < 10 THEN <<DigitChars[n + 1]>>
    ELSE DecimalChars(n \div 10) \o <<DigitChars[(n % 10) + 1]>>

\* Number.prototype.toFixed(1) of a double 0 <= x < 2^Precision: the integer
\* n with n / 10 nearest to the exact value of x (the larger on a tie),
\* printed with one decimal.  10 m = 8 m + 2 m, exactly.
Tenths(x) ==
    IF x = Zero THEN 0
    ELSE LET m8        == Zeros(1) \o x.m \o Zeros(3)
             m2        == Zeros(3) \o x.m \o Zeros(1)
             m10       == AddBits(m8, m2)
             intDigits == Len(m10) + x.e
         IN  IF intDigits < 0 THEN 0
             ELSE BitsToInt(StripZeros(SubSeq(m10, 1, intDigits))) + m10[intDigits + 1]

ToFixed1(x) ==
    DecimalChars(Tenths(x) \div 10) \o <<".">> \o DecimalChars(Tenths(x) % 10)

\* getAllAttendanceForClass (src/services/supabaseService.ts 241-260):
\* the rows of the users of the class, between the dates if given (0: not
\* given), latest date first
GetAllAttendanceForClass(att, classId, startDate, endDate) ==
    LET studentIds == {u.uid : u \in {x \in UsersTable : x.classId = classId}}
    IN  OrderedByDateDesc(
            {att[i] : i \in {k \in 1..Len(att) :
                               /\ att[k].studentId \in studentIds
                               /\ startDate # 0 => att[k].date >= startDate
                               /\ endDate # 0 => att[k].date <= endDate}})

\* `[...new Set(data.map(d => d.subject))]`: the subjects, in the order of
\* their first row
RECURSIVE SubjectsOf(_)
SubjectsOf(data) ==
    IF data = <<>> THEN <<>>
    ELSE LET before == SubjectsOf(Front(data))
             sub    == data[Len(data)].subject
         IN  IF \E i \in 1..Len(before) : before[i] = sub THEN before
             ELSE Append(before, sub)

\* the column as an integer percentage, rounded from the double
PercentageRounded(present, total) ==
    IF total > 0
       THEN JsString(DecimalChars(MathRound(DoubleTimes100(DoubleDiv(present, total))))
                     \o <<".", "0", "%">>)
       ELSE JsString(<<"0", "%">>)

\* the percentage column of the subject report (src/App.tsx 890):
\* `total > 0 ? ((present / total) * 100).toFixed(1) + '%' : '0%'`
PercentageText(present, total) ==
    IF total > 0
       THEN JsString(ToFixed1(DoubleTimes100(DoubleDiv(present, total))) \o <<"%">>)
       ELSE JsString(<<"0", "%">>)

\* one row of the subject report
SubjectRow(data, sub) ==
    LET subAtt  == {i \in 1..Len(data) : data[i].subject = sub}
        total   == Cardinality(subAtt)
        present == Cardinality({i \in subAtt : data[i].present})
    IN  [subject         |-> sub,
         totalSessions   |-> total,
         presentSessions |-> present,
         percentage      |-> PercentageText(present, total)]

\* AdminReportsModule.fetchReport, report type 'subject' (src/App.tsx 879-893)
FetchReport(classId, startDate, endDate) ==
    /\ LET data     == GetAllAttendanceForClass(attendance, classId, startDate, endDate)
           subjects == SubjectsOf(data)
       IN  attendanceData' =
              [classId |-> classId, startDate |-> startDate, endDate |-> endDate,
               rows |-> [k \in 1..Len(subjects) |-> SubjectRow(data, subjects[k])]]
    /\ UNCHANGED stats
    /\ UNCHANGED <<studentVars, notifyVars, attVars, schedVars>>

(***************************************************************************)
(* Specification of the reports: teachers' clients fill the Ledger, the    *)
(* administrator fetches the daily activity and the subject report.        *)
(***************************************************************************)
ReportDates == {1, 2}

InitDaily ==
    /\ timetable = {}
    /\ nextId = 1
    /\ notices = <<>>
    /\ selectedClass = [c \in Editors |-> AttClass]
    /\ entries = [c \in Editors |-> <<>>]
    /\ editing = [c \in Editors |-> NoId]
    /\ errorMsg = [c \in Editors |-> NoMsg]
    /\ AttendanceIdle
    /\ ViewIdle

\* a teacher's client saves the attendance of a class
SaveAnyAttendance ==
    \E svc \in Services, i \in 1..Len(ClassesTable), date \in ReportDates,
       subject \in Subjects :
       \E present \in [1..Len(RosterOf(ClassesTable[i])) -> BOOLEAN] :
           SaveAttendanceCall(svc, ClassesTable[i], present, date, subject)

NextDaily ==
    \/ SaveAnyAttendance
    \/ \E date \in ReportDates : FetchDailyStats(date)

SpecDaily == InitDaily /\ [][NextDaily]_vars

(***************************************************************************)
(* Specification of the subject report: the report is a function of the    *)
(* Ledger, so the Ledger is drawn from the sheets of one student of cse-b  *)
(* over MaxDate dates and both subjects (each session unmarked, present or *)
(* absent), with or without a row of another class.                        *)
(***************************************************************************)
MaxDate == 3

SessionKeys ==
    [k \in 1..(2 * MaxDate) |->
        [date |-> ((k - 1) \div 2) + 1,
         subject |-> IF k % 2 = 1 THEN "Math" ELSE "Physics"]]

Marks == {"unmarked", "present", "absent"}

RECURSIVE Sheet(_, _)
Sheet(mark, k) ==
    IF k = 0 THEN <<>>
    ELSE IF mark[k] = "unmarked" THEN Sheet(mark, k - 1)
    ELSE Append(Sheet(mark, k - 1),
                [studentId |-> "s3", date |-> SessionKeys[k].date,
                 subject |-> SessionKeys[k].subject, present |-> (mark[k] = "present")])

InitReports ==
    /\ timetable = {}
    /\ nextId = 1
    /\ notices = <<>>
    /\ selectedClass = [c \in Editors |-> AttClass]
    /\ entries = [c \in Editors |-> <<>>]
    /\ editing = [c \in Editors |-> NoId]
    /\ errorMsg = [c \in Editors |-> NoMsg]
    /\ \E mark \in [1..Len(SessionKeys) -> Marks], other \in BOOLEAN :
          attendance = Sheet(mark, Len(SessionKeys))
                       \o (IF other
                              THEN <<[studentId |-> "s1", date |-> 1, subject |-> "Math",
                                      present |-> TRUE]>>
                              ELSE <<>>)
    /\ now = FirstInstant
    /\ tz = 0
    /\ schedule = <<>>
    /\ activeEntry = NoEntry
    /\ recs = {}
    /\ selectedDate = 1
    /\ selectedSubject = ""
    /\ timetableEntries = <<>>
    /\ attendanceStatus = <<>>
    /\ isTimingValid = TRUE
    /\ message = NoMsg
    /\ ViewIdle

\* the date bounds the administrator tries: none, or the second date
FilterDates == {0, 2}

NextReports ==
    \E i \in 1..Len(ClassesTable), startDate \in FilterDates, endDate \in FilterDates :
        FetchReport(ClassesTable[i], startDate, endDate)

SpecReports == InitReports /\ [][NextReports]_vars


(***************************************************************************)
(* The daily activity                                                      *)
(***************************************************************************)
\* the members of a class: its users with role student or cr
Members(classId) ==
    {u.uid : u \in {x \in UsersTable : x.classId = classId /\ x.role \in {"student", "cr"}}}

\* the members of a class with at least one present row on the date
PresentOn(att, classId, date) ==
    {s \in Members(classId) :
        \E i \in 1..Len(att) :
            att[i].studentId = s /\ att[i].date = date /\ att[i].present}

InRange(att, classId, startDate, endDate) ==
    {i \in 1..Len(att) :
        /\ \E u \in UsersTable : u.classId = classId /\ u.uid = att[i].studentId
        /\ startDate # 0 => att[i].date >= startDate
        /\ endDate # 0 => att[i].date <= endDate}

\* the rows of the report are rows of its parameters over the Ledger: one
\* per distinct subject in range, with the counts of that subject
ReportGroups(report, att) ==
    LET inRange == InRange(att, report.classId, report.startDate, report.endDate)
        rows    == report.rows
    IN  /\ {rows[k].subject : k \in 1..Len(rows)} = {att[i].subject : i \in inRange}
        /\ \A j, k \in 1..Len(rows) : rows[j].subject = rows[k].subject => j = k
        /\ \A k \in 1..Len(rows) :
              LET mine == {i \in inRange : att[i].subject = rows[k].subject}
              IN  /\ rows[k].totalSessions = Cardinality(mine)
                  /\ rows[k].presentSessions = Cardinality({i \in mine : att[i].present})
        /\ Cardinality(inRange) =
              LET RECURSIVE Sum(_)
                  Sum(k) == IF k = 0 THEN 0 ELSE Sum(k - 1) + rows[k].totalSessions
              IN  Sum(Len(rows))

\* the text "d.t%" of a number of tenths
TenthsText(T) ==
    JsString(DecimalChars(T \div 10) \o <<".">> \o DecimalChars(T % 10) \o <<"%">>)

\* C17 (amended): a fetched subject report has one entry per distinct
\* subject among the class's records in range, totalSessions is the number
\* of records of the subject, presentSessions the number of those that are
\* present, the totalSessions sum to the number of records in range, and
\* percentage is the text of 100 * presentSessions / totalSessions rounded
\* to the nearest tenth, followed by '%'.
C17_SubjectReportOneDecimal ==
    [][attendanceData' # attendanceData =>
          /\ ReportGroups(attendanceData', attendance)
          /\ \A k \in 1..Len(attendanceData'.rows) :
                LET row == attendanceData'.rows[k]
                    floor == (1000 * row.presentSessions) \div row.totalSessions
                IN  \E T \in {floor, floor + 1} :
                       /\ row.percentage = TenthsText(T)
                       /\ 2 * T * row.totalSessions - 2000 * row.presentSessions
                             \in (0 - row.totalSessions)..row.totalSessions]_vars

\* C17 (as stated): ... and percentage is the integer percentage 0..100 of
\* the records of the subject, rounded half up.
C17_SubjectReportInteger ==
    [][attendanceData' # attendanceData =>
          /\ ReportGroups(attendanceData', attendance)
          /\ \A k \in 1..Len(attendanceData'.rows) :
                LET row == attendanceData'.rows[k]
                IN  /\ row.percentage.type = "number"
                    /\ row.percentage.value =
                          (200 * row.presentSessions + row.totalSessions)
                             \div (2 * row.totalSessions)]_vars

\* a report with two subjects, one of them present in one of three sessions
C17_Witness ==
    /\ Len(attendanceData.rows) = 2
    /\ ReportGroups(attendanceData, attendance)
    /\ \E k \in 1..2 :
          /\ attendanceData.rows[k].totalSessions = 3
          /\ attendanceData.rows[k].presentSessions = 1
          /\ attendanceData.rows[k].percentage = JsString(<<"3", "3", ".", "3", "%">>)


(***************************************************************************)
(* Timetable notices                                                       *)
(***************************************************************************)
\* the action tag and the class of a step that changes the Timetable Store
MutationOf(before, after) ==
    IF \E r \in after : r.id \notin Ids(before)
       THEN [action  |-> "added",
             classId |-> (CHOOSE r \in after : r.id \notin Ids(before)).classId]
    ELSE IF \E r \in before : r.id \notin Ids(after)
       THEN [action  |-> "removed",
             classId |-> (CHOOSE r \in before : r.id \notin Ids(after)).classId]
    ELSE [action  |-> "updated",
          classId |-> (CHOOSE r \in after : r \notin before).classId]

\* C18: every step that changes the Timetable Store appends exactly one
\* notice, of the class of the changed slot, whose title is the reserved
\* prefix followed by ADDED, UPDATED or REMOVED according to the mutation;
\* on every schedule-editing path, the update issued without a classId
\* included.
C18_MutationCreatesOneNotice ==
    [][timetable' # timetable =>
          LET mutation == MutationOf(timetable, timetable')
          IN  notices' = Append(notices, [classId |-> mutation.classId,
                                          title   |-> NoticeTitle(mutation.action)])]_vars


(***************************************************************************)
(* useTimetableChangeNotification (src/App.tsx 546-576), one instance per  *)
(* viewer client.  A notice's id is its position in the notices table;     *)
(* posted_at follows the order of insertion.  A poll is two steps: the     *)
(* request reads the table (PollSend), the response is handled later       *)
(* (PollReceive), and polls of one client may overlap.                     *)
(***************************************************************************)
MaxInflight == 2

ViewerClass(v) == "cse-a"

\* getNoticesForClass (src/services/supabaseService.ts 293-302): the notices
\* of the class, latest first
RECURSIVE GetNoticesForClass(_, _)
GetNoticesForClass(ns, classId) ==
    IF ns = <<>> THEN <<>>
    ELSE IF ns[Len(ns)].classId = classId
       THEN <<[id |-> Len(ns), title |-> ns[Len(ns)].title]>>
            \o GetNoticesForClass(Front(ns), classId)
    ELSE GetNoticesForClass(Front(ns), classId)

\* n.title.startsWith('🚨 TIMETABLE_')
IsTimetableNotice(n) ==
    Len(n.title) >= 2 /\ n.title[1] = "SIREN" /\ n.title[2] = "TIMETABLE_"

\* the same over a list sorted oldest first: the last match is taken
OldestTT(list) ==
    IF \E i \in 1..Len(list) : IsTimetableNotice(list[i])
       THEN list[CHOOSE i \in 1..Len(list) :
                    /\ IsTimetableNotice(list[i])
                    /\ \A j \in (i + 1)..Len(list) : ~IsTimetableNotice(list[j])]
       ELSE NoEntry

\* notices.find(n => n.title.startsWith('🚨 TIMETABLE_')), NoEntry if none
LatestTT(list) ==
    IF \E i \in 1..Len(list) : IsTimetableNotice(list[i])
       THEN list[CHOOSE i \in 1..Len(list) :
                    /\ IsTimetableNotice(list[i])
                    /\ \A j \in 1..(i - 1) : ~IsTimetableNotice(list[j])]
       ELSE NoEntry

\* the effect of a response without the lookup of the dismissal
ReceivedUnchecked(v, response) ==
    IF LatestTT(response) # NoEntry
       THEN [alert EXCEPT ![v] = LatestTT(response).id]
       ELSE alert

\* the effect of a response: the alert is set unless localStorage holds
\* the dismissal of the latest timetable notice
Received(v, response) ==
    IF LatestTT(response) # NoEntry /\ LatestTT(response).id \notin dismissed[v]
       THEN [alert EXCEPT ![v] = LatestTT(response).id]
       ELSE alert

NotifyFrame ==
    /\ UNCHANGED <<selectedClass, entries, editing, errorMsg>>
    /\ UNCHANGED <<studentVars, reportVars, attVars>>

\* check(): the request is answered from the table as it is now
PollSend(v) ==
    /\ Cardinality(inflight[v]) < MaxInflight
    /\ inflight' = [inflight EXCEPT
                      ![v] = @ \cup {GetNoticesForClass(notices, ViewerClass(v))}]
    /\ inflight' # inflight
    /\ UNCHANGED <<alert, dismissed>>
    /\ StoreUnchanged
    /\ NotifyFrame

\* the continuation of check() after the await
PollReceive(v) ==
    /\ \E response \in inflight[v] :
          /\ inflight' = [inflight EXCEPT ![v] = @ \ {response}]
          /\ alert' = Received(v, response)
    /\ UNCHANGED dismissed
    /\ StoreUnchanged
    /\ NotifyFrame

\* the request fails: check() logs the error
PollFail(v) ==
    /\ \E response \in inflight[v] :
          inflight' = [inflight EXCEPT ![v] = @ \ {response}]
    /\ UNCHANGED <<alert, dismissed>>
    /\ StoreUnchanged
    /\ NotifyFrame

\* dismissAlert
DismissAlert(v) ==
    /\ alert[v] # NoId
    /\ dismissed' = [dismissed EXCEPT ![v] = @ \cup {alert[v]}]
    /\ alert' = [alert EXCEPT ![v] = NoId]
    /\ UNCHANGED inflight
    /\ StoreUnchanged
    /\ NotifyFrame

\* createNotice (src/services/supabaseService.ts 262): a notice written by hand
CreateNotice(classId) ==
    /\ Len(notices) < MaxNotices
    /\ notices' = Append(notices, [classId |-> classId, title |-> <<"Exam">>])
    /\ UNCHANGED <<timetable, nextId>>
    /\ UNCHANGED notifyVars
    /\ NotifyFrame

\* the editors' service calls on the timetable of the viewers' class
AddCall ==
    /\ AddTimetableEntry("cse-a", "Monday", "Math", "Rao", TimeStr(9, 0), TimeStr(9, 30))
    /\ UNCHANGED notifyVars
    /\ NotifyFrame

UpdateCall(id, hasClassId, endTime) ==
    /\ id \in Ids(timetable)
    /\ UpdateTimetableEntry(id, hasClassId, "cse-a", "Monday", "Math", "Rao",
                            TimeStr(9, 0), endTime)
    /\ timetable' # timetable
    /\ UNCHANGED notifyVars
    /\ NotifyFrame

DeleteCall(id) ==
    /\ id \in Ids(timetable)
    /\ DeleteTimetableEntry(id)
    /\ UNCHANGED notifyVars
    /\ NotifyFrame

InitNotify ==
    /\ timetable = {}
    /\ nextId = 1
    /\ notices = <<>>
    /\ selectedClass = [c \in Editors |-> AttClass]
    /\ entries = [c \in Editors |-> <<>>]
    /\ editing = [c \in Editors |-> NoId]
    /\ errorMsg = [c \in Editors |-> NoMsg]
    /\ AttendanceIdle
    /\ ViewIdle

NextNotify ==
    \/ AddCall
    \/ \E id \in 1..MaxSlots, hasClassId \in BOOLEAN,
          endTime \in {TimeStr(9, 30), TimeStr(10, 0)} : UpdateCall(id, hasClassId, endTime)
    \/ \E id \in 1..MaxSlots : DeleteCall(id)
    \/ CreateNotice("cse-a")
    \/ \E v \in Viewers : PollSend(v)
    \/ \E v \in Viewers : PollReceive(v)
    \/ \E v \in Viewers : PollFail(v)
    \/ \E v \in Viewers : DismissAlert(v)

SpecNotify == InitNotify /\ [][NextNotify]_vars


(***************************************************************************)
(* Dismissal                                                               *)
(***************************************************************************)
\* C19: once a client has dismissed the alert of timetable notice N, no
\* poll of that client shows N again, however polls, responses in flight
\* and dismissals interleave: a client never shows a notice it has
\* dismissed, a dismissal is never forgotten, and dismissing leaves the
\* notices table as it is, so N stays there for the other clients.
C19_DismissalPermanent ==
    /\ [](\A v \in Viewers : alert[v] \notin dismissed[v])
    /\ [][\A v \in Viewers :
             /\ dismissed[v] \subseteq dismissed'[v]
             /\ dismissed'[v] # dismissed[v] => notices' = notices]_vars

\* v1 has dismissed the latest timetable notice N and shows nothing, a
\* response of v1 that still carries N is in flight, and v2 shows N
C19_Witness ==
    LET N == LatestTT(GetNoticesForClass(notices, ViewerClass("v1")))
    IN  /\ N # NoEntry
        /\ N.id \in dismissed["v1"]
        /\ alert["v1"] = NoId
        /\ \E response \in inflight["v1"] : LatestTT(response) = N
        /\ alert["v2"] = N.id


(***************************************************************************)
(* Re-arming.  One client under fair polling: a request is eventually sent *)
(* (setInterval) and a response in flight is eventually handled.           *)
(***************************************************************************)
\* the editors' calls: `silent` admits the update without classId of the
\* generation 2 editor
EditorCalls(silent) ==
    \/ AddCall
    \/ \E id \in 1..MaxSlots, hasClassId \in {TRUE, ~silent},
          endTime \in {TimeStr(9, 30), TimeStr(10, 0)} : UpdateCall(id, hasClassId, endTime)
    \/ \E id \in 1..MaxSlots : DeleteCall(id)

ClientSteps ==
    \/ PollSend("v1")
    \/ PollReceive("v1")
    \/ DismissAlert("v1")

FairPolling == WF_vars(PollSend("v1")) /\ WF_vars(PollReceive("v1"))

NextRearm == EditorCalls(TRUE) \/ ClientSteps

SpecRearm == InitNotify /\ [][NextRearm]_vars /\ FairPolling

\* the same with the editors that pass classId on every update
NextAnnounced == EditorCalls(FALSE) \/ ClientSteps

SpecAnnounced == InitNotify /\ [][NextAnnounced]_vars /\ FairPolling

\* the timetables of the editors' calls above
Timetables ==
    {tt \in SUBSET {NewRow(id, "cse-a", "Monday", "Math", "Rao", TimeStr(9, 0), endTime) :
                       id \in 1..MaxSlots, endTime \in {TimeStr(9, 30), TimeStr(10, 0)}} :
        \A x, y \in tt : x.id = y.id => x = y}

\* the client has dismissed the latest timetable notice of its class and
\* shows nothing
Dismissed(v) ==
    LET N == LatestTT(GetNoticesForClass(notices, ViewerClass(v)))
    IN  N # NoEntry /\ N.id \in dismissed[v] /\ alert[v] = NoId

\* C20: from Dismissed, with the timetable of the class being T and the
\* notices table holding k notices, either the timetable stays T for ever
\* (no new mutation) or, under fair polling, the client is eventually
\* Notified with a new notice (one created after the k).
C20_RearmsAfterMutation ==
    \A T \in Timetables, k \in 1..MaxNotices :
        [](/\ Dismissed("v1") /\ timetable = T /\ Len(notices) = k
              => ([](timetable = T) \/ <>(alert["v1"] > k)))


(***************************************************************************)
(* The low-attendance warning of a student's dashboard                     *)
(***************************************************************************)
\* dismissAlert of useAttendanceNotification (src/App.tsx 597)
DismissAttendanceAlert ==
    /\ lowAlert # NoAlert
    /\ lowAlert' = NoAlert
    /\ UNCHANGED <<studentRecs, perc, percentage, attChecked>>
    /\ UNCHANGED <<reportVars, notifyVars, attVars, schedVars>>

\* the page is loaded again: the hook starts from useState(null) and its
\* effect is due again
Reload ==
    /\ attChecked
    /\ attChecked' = FALSE
    /\ lowAlert' = NoAlert
    /\ UNCHANGED <<studentRecs, perc, percentage>>
    /\ UNCHANGED <<reportVars, notifyVars, attVars, schedVars>>

MaxSessions == 8

InitLow ==
    /\ timetable = {}
    /\ nextId = 1
    /\ notices = <<>>
    /\ selectedClass = [c \in Editors |-> AttClass]
    /\ entries = [c \in Editors |-> <<>>]
    /\ editing = [c \in Editors |-> NoId]
    /\ errorMsg = [c \in Editors |-> NoMsg]
    /\ \E n \in 0..MaxSessions, p \in 0..MaxSessions, other \in BOOLEAN :
          p <= n /\ attendance = History(n, p, other)
    /\ now = FirstInstant
    /\ tz = 0
    /\ schedule = <<>>
    /\ activeEntry = NoEntry
    /\ recs = {}
    /\ selectedDate = 1
    /\ selectedSubject = ""
    /\ timetableEntries = <<>>
    /\ attendanceStatus = <<>>
    /\ isTimingValid = TRUE
    /\ message = NoMsg
    /\ ViewIdle

NextLow ==
    \/ LowAttendanceCheck("s1")
    \/ DismissAttendanceAlert
    \/ Reload

SpecLow == InitLow /\ [][NextLow]_vars

\* the student's aggregated percentage, 0 without records, is below 75
BelowThreshold ==
    LET own == GetAttendanceForStudent(attendance, "s1")
    IN  (IF Len(own) = 0 THEN 0 ELSE RoundedPercentExact(own)) < 75

\* C21: whenever the warning is evaluated, it is raised if and only if the
\* student's aggregated percentage (0 when the student has no records) is
\* strictly below 75: raised again when it was dismissed, not raised at 75.
C21_LowAlertReevaluated ==
    [][(~attChecked /\ attChecked') => ((lowAlert' # NoAlert) <=> BelowThreshold)]_vars

(***************************************************************************)
(* Failures of the storage                                                 *)
(***************************************************************************)
\* the Ledger holds the batch for the date and subject
Stored(att, records, date, subject) ==
    \A i \in 1..Len(records) :
        \E k \in 1..Len(att) :
            /\ att[k].studentId = records[i].studentId
            /\ att[k].date = date
            /\ att[k].subject = subject
            /\ att[k].present = records[i].present

\* C22: a commit whose storage write fails does not report success to the
\* user: whenever the attendance module comes to report success, the batch
\* it committed is in the Ledger.
C22_SuccessOnlyWhenStored ==
    [][(message # "success" /\ message' = "success")
          => Stored(attendance', CommitRecords(recs), UtcDate(now, tz),
                    activeEntry.subject)]_vars


(***************************************************************************)
(* Two administrators' editors (generation 2) open on the same class, each *)
(* with the entries it fetched last.  A handler runs as one step: its      *)
(* check, its insert or update and its fetch are not interleaved with the  *)
(* other editor's.                                                         *)
(***************************************************************************)
RaceEditors == {"e1", "e3"}

NextRace ==
    \/ \E c \in RaceEditors : Mount(c, "cse-a")
    \/ \E c \in RaceEditors, i \in 1..MaxSlots : StartEditing(c, i)
    \/ \E c \in RaceEditors, startTime \in Times, endTime \in Times :
          HandleAction(c, "Monday", "Math", "Rao", startTime, endTime, TRUE)

SpecRace == Init /\ [][NextRace]_vars

\* C23: with two editors adding and updating slots of one class and day,
\* each checking against the slots it fetched last, no two stored slots of
\* the same class and day ever overlap: of any two, one ends no later than
\* the other starts.
C23_RaceFreeOverlapCheck ==
    \A x, y \in timetable :
        (x.id # y.id /\ x.classId = y.classId /\ x.day = y.day)
           => (StrGeq(x.startTime, y.endTime) \/ StrGeq(y.startTime, x.endTime))


(***************************************************************************)
(* The gate and the write                                                  *)
(***************************************************************************)
\* C24: however clock ticks, the 10-second poll and the commit (with the
\* time the confirmation takes) interleave, the Ledger is written only while
\* the slot whose subject the batch carries is live at the instant of the
\* write.
C24_GateAtomicWithWrite ==
    [][attendance' # attendance =>
          /\ activeEntry # NoEntry
          /\ activeEntry \in LiveSlots(timetable, AttClass, now)]_vars


(***************************************************************************)
(* An open attendance client (generation 1) while the editors change the   *)
(* timetable of its class                                                  *)
(***************************************************************************)
NextLive ==
    \/ Tick
    \/ \E dS \in MsSigns, dE \in MsSigns : RefreshActiveSession(dS, dE)
    \/ AddCall
    \/ \E id \in 1..MaxSlots, hasClassId \in BOOLEAN,
          endTime \in {TimeStr(9, 30), TimeStr(10, 0)} : UpdateCall(id, hasClassId, endTime)
    \/ \E id \in 1..MaxSlots : DeleteCall(id)

SpecLive == InitAttendance /\ [][NextLive]_vars

\* C25: the live slot is not cached beyond a polling interval: whenever a
\* poll of an open client reports a slot live, that slot is a slot of the
\* Timetable Store as it is now; a slot that was deleted or changed is not
\* reported live by a later poll.
C25_PollSeesCurrentStore ==
    [][(activeEntry' # activeEntry /\ activeEntry' # NoEntry)
          => activeEntry' \in timetable']_vars


(***************************************************************************)
(* The date of a commit                                                    *)
(***************************************************************************)
\* C26: the date stored with a batch is the calendar day on which the live
\* slot was evaluated: at every instant and for every offset of the local
\* time from UTC, the date of a record the commit writes is the local date
\* whose day of week decided that the slot is live.
C26_CommitDateIsLocalDay ==
    [][attendance' # attendance =>
          \A i \in 1..Len(attendance') :
              (i > Len(attendance) \/ attendance'[i] # attendance[i])
                 => attendance'[i].date = now.date]_vars


(***************************************************************************)
(* The roster of a commit                                                  *)
(***************************************************************************)
\* the rows of the Ledger for a student, date and subject
RowsOf(att, studentId, date, subject) ==
    {i \in 1..Len(att) : SameKey(att[i], studentId, date, subject)}

\* what the committing module holds: generation 2 has a selected subject,
\* generation 1 the live slot and the marks
CommitDate    == IF selectedSubject # "" THEN selectedDate ELSE UtcDate(now, tz)
CommitSubject == IF selectedSubject # "" THEN selectedSubject ELSE activeEntry.subject
Toggled(k)    == IF selectedSubject # "" THEN attendanceStatus[k] ELSE Students[k] \in recs

\* C27: a commit covers the whole roster: after a commit that changes the
\* Ledger, every member of the roster passed to the module has exactly one
\* record for the (date, subject) of the commit, present exactly for the
\* members toggled present and absent for all others.
C27_CommitCoversRoster ==
    [][attendance' # attendance =>
          \A k \in 1..Len(Students) :
              LET rows == RowsOf(attendance', Students[k], CommitDate, CommitSubject)
              IN  /\ Cardinality(rows) = 1
                  /\ \A i \in rows : attendance'[i].present = Toggled(k)]_vars

\* a commit of generation 2 has been made over a Ledger that held other
\* records: every member has its one record, one present and one absent
C27_Witness ==
    /\ selectedSubject # ""
    /\ message = "success"
    /\ Len(attendance) > Len(Students)
    /\ \A k \in 1..Len(Students) :
          /\ Cardinality(RowsOf(attendance, Students[k], selectedDate, selectedSubject)) = 1
          /\ \A i \in RowsOf(attendance, Students[k], selectedDate, selectedSubject) :
                attendance[i].present = attendanceStatus[k]
    /\ \E j, k \in 1..Len(Students) : attendanceStatus[j] /\ ~attendanceStatus[k]


(***************************************************************************)
(* Which notice a poll surfaces                                            *)
(***************************************************************************)
\* the ids of the machine-generated notices of a response
MachineIds(response) ==
    {response[i].id : i \in {k \in 1..Len(response) : IsTimetableNotice(response[k])}}

\* the newest of them, NoId if there is none
NewestMachineId(response) ==
    IF MachineIds(response) = {} THEN NoId
    ELSE CHOOSE n \in MachineIds(response) : \A m \in MachineIds(response) : m <= n

\* C28: a poll surfaces the newest machine-generated notice of the class or
\* nothing: when a handled response changes the alert, the alert is the
\* newest notice of the response whose title starts with the reserved
\* prefix, a notice of the client's class that the client has not
\* dismissed; and when that newest notice has been dismissed the alert
\* stays as it is, whatever older machine notices were never dismissed.
\* A notice written by hand is never the alert.
C28_OnlyNewestMachineNotice ==
    [][\A v \in Viewers :
          \A response \in inflight[v] \ inflight'[v] :
              LET newest == NewestMachineId(response)
              IN  /\ alert'[v] # alert[v] =>
                        /\ alert'[v] = newest
                        /\ newest \notin dismissed[v]
                        /\ notices[newest].classId = ViewerClass(v)
                        /\ IsTimetableNotice(notices[newest])
                  /\ newest \in dismissed[v] => alert'[v] = alert[v]]_vars

\* v1 has dismissed the newest machine notice, an older machine notice was
\* never dismissed and v1 shows nothing; v2 shows that newest machine notice
\* although a notice written by hand is newer
C28_Witness ==
    \E n \in 1..Len(notices) :
        /\ IsTimetableNotice(notices[n])
        /\ \A m \in (n + 1)..Len(notices) : ~IsTimetableNotice(notices[m])
        /\ \E m \in (n + 1)..Len(notices) : notices[m].classId = ViewerClass("v2")
        /\ \E m \in 1..(n - 1) : IsTimetableNotice(notices[m]) /\ m \notin dismissed["v1"]
        /\ n \in dismissed["v1"]
        /\ alert["v1"] = NoId
        /\ inflight["v1"] = {}
        /\ alert["v2"] = n


(***************************************************************************)
(* Notices and changes                                                     *)
(***************************************************************************)
\* C29: no change notice without a change: a step adds a notice only if it
\* changes the Timetable Store or rewrites a stored slot with the values it
\* has (an update of the slot some editor is editing); a call that fails or
\* that finds no slot to change adds none, so the machine notices of a class
\* never outnumber the successful mutations of its timetable.
C29_NoNoticeWithoutChange ==
    [][Len(notices') > Len(notices) =>
          \/ timetable' # timetable
          \/ \E c \in Editors : editing[c] \in Ids(timetable)]_vars


(***************************************************************************)
(* Slot mutations and their target                                         *)
(***************************************************************************)
\* the administrator's console next to a ledger that is being written: one
\* teacher's save for the second class
NextTarget ==
    \/ NextAdmin
    \/ \E present \in BOOLEAN :
          SaveAttendanceCall("supabase", "cse-b", <<present>>, 1, "Math")

SpecTarget == Init /\ [][NextTarget]_vars

RemovedRows == timetable \ timetable'
InsertedRows == timetable' \ timetable

\* C30: slot mutations touch only their target: a step that changes the
\* Timetable Store without adding a slot either removes exactly the one slot
\* whose delete button was clicked, or replaces exactly the slot being edited
\* by a slot of the same id and classId; every other slot of every class and
\* the whole Attendance Ledger stay as they were.
C30_MutationsTouchOnlyTarget ==
    [][(timetable' # timetable /\ nextId' = nextId) =>
          /\ attendance' = attendance
          /\ \/ /\ InsertedRows = {}
                /\ Cardinality(RemovedRows) = 1
                /\ \E i \in 1..Len(entries["e1"]) :
                      RemovedRows = {r \in timetable : r.id = entries["e1"][i].id}
             \/ \E r \in timetable, r2 \in timetable' :
                   /\ r.id = editing["e1"]
                   /\ RemovedRows = {r}
                   /\ InsertedRows = {r2}
                   /\ r2.id = r.id
                   /\ r2.classId = r.classId]_vars

\* the slot of one class has been deleted while a slot of the other class and
\* a row of the ledger were stored, and both are still there
C30_Witness ==
    /\ attendance # <<>>
    /\ nextId = 3
    /\ Len(notices) > 0
    /\ notices[Len(notices)].title = NoticeTitle("removed")
    /\ \E r \in timetable : r.classId = "cse-b"
    /\ \A r \in timetable : r.classId # "cse-a"

=============================================================================
